---- MODULE Spec2Model ----
(***************************************************************************)
(* A state-machine model of dm-agent/dm_agent.py: the scheduler loop of    *)
(* main(), one poll cycle (poll_cycle), the backend caller with its retry  *)
(* loop (_request_with_retry), the coordination lock check and the         *)
(* watermark store.  Time is counted in hundredths of a second.            *)
(***************************************************************************)
EXTENDS Integers, Sequences, FiniteSets, TLC

VARIABLES
    pc,         \* position of the process in main() / poll_cycle()
    now,        \* the wall clock, hundredths of a second since midnight of day 0
    lock,       \* the coordination lock file: [exists, mtime]
    cl,         \* the client handle main() holds (0: none yet)
    made,       \* number of Client() objects built so far
    session,    \* session.json: the handle whose settings were dumped (0: no file)
    last_seen,  \* the in-memory watermark dict
    disk,       \* last_seen.json: [exists, data]
    nmsgs,      \* remote account: number of messages of each thread (ids 1..n)
    own,        \* remote account: ids of the messages the account itself sent
    queue,      \* backend: the pending-reply queue
    iter,       \* scheduler iterations started
    budget,     \* what the environment may still do: [fail, arrive, touch, restart]
    loc,        \* local variables of main() and poll_cycle()
    hbs,        \* heartbeats sent in the current iteration
    calls,      \* remote-client calls made in the current iteration
    lastOut,    \* what the latest of them returned or raised ("": none yet)
    polled,     \* the current iteration entered poll_cycle
    cycFwd,     \* messages handed to forward_message for the current thread
    runFwd,     \* message ids handed to forward_message in this process run
    chal,       \* a remote-client call raised a manual-verification signal
    afterChal,  \* a remote-client call was made after such a signal
    exitCode,   \* exit code of the process (-1 while running)
    body,       \* backend: shape of the body of the pending-replies response
    sends,      \* how often each pending reply was sent via the remote client
    newest,     \* newest message id per thread ever handed to forward_message
    saves,      \* calls of save_last_seen in the current iteration
    gap,        \* how the last poll cycle ended, time slept since: [how, slept]
    rq          \* one call of a function checked on its own: input and result

vars == << pc, now, lock, cl, made, session, last_seen, disk, nmsgs, own,
           queue, iter, budget, loc, hbs, calls, lastOut, polled, cycFwd,
           runFwd, chal, afterChal, exitCode, body, sends, newest, saves,
           gap, rq >>

(***************************************************************************)
(* Bounds of the model                                                     *)
(***************************************************************************)
MaxIter == 3
MaxFail == 1
MaxArrive == 2
MaxTouch == 1
MaxRestart == 1

(***************************************************************************)
(* Values                                                                  *)
(***************************************************************************)
Threads == {"t1", "t2"}

Sec(n) == n * 100

None == << >>

\* str(msg.id): a string, never equal to None
Str(i) == << "str", i >>

RECURSIVE Sum(_)
Sum(s) == IF s = << >> THEN 0 ELSE Head(s) + Sum(Tail(s))

Max(a, b) == IF a >= b THEN a ELSE b

Min(a, b) == IF a <= b THEN a ELSE b

RECURSIVE Reverse(_)
Reverse(s) == IF s = << >> THEN << >> ELSE Append(Reverse(Tail(s)), Head(s))

cfg == [ active_start_hour |-> 9, active_end_hour |-> 21,
         winddown_start_hour |-> 18,
         poll_interval_active_sec |-> 60,
         poll_interval_winddown_sec |-> 300 ]

(***************************************************************************)
(* _request_with_retry                                                     *)
(***************************************************************************)
AttemptOutcome == {"ok", "timeout", "connection_error", "http_error"}

AttemptSeqs == [1..3 -> AttemptOutcome]

MaxAttempts == 3

\* a backoff counted from the 0-based attempt number: 1, 2, 4
BackoffZeroBased(attempt) == Sec(2 ^ attempt)

Backoff(attempt) == Sec(2 ^ (attempt + 1))

\* the for loop of _request_with_retry, from iteration `attempt` on; outs[k] is
\* what the k-th requests.request / raise_for_status does
RECURSIVE RetryLoop(_, _, _)
RetryLoop(outs, attempt, sleeps) ==
    IF attempt >= MaxAttempts
    THEN [resp |-> FALSE, attempts |-> attempt, sleeps |-> sleeps]
    ELSE IF outs[attempt + 1] = "ok"
         THEN [resp |-> TRUE, attempts |-> attempt + 1, sleeps |-> sleeps]
         ELSE RetryLoop(outs, attempt + 1, Append(sleeps, Backoff(attempt)))

request_with_retry(outs) == RetryLoop(outs, 0, << >>)

\* the outcomes of a backend call the scheduler model draws from: the first
\* attempt succeeds, or all attempts fail
AllOk == [k \in 1..3 |-> "ok"]
AllFail == [k \in 1..3 |-> IF k = 2 THEN "http_error" ELSE "timeout"]

BackendOuts == IF budget.fail > 0 THEN {AllOk, AllFail} ELSE {AllOk}

\* effect of one backend call on the clock and on the failure count
Backend(outs) ==
    LET r == request_with_retry(outs) IN
    /\ now' = now + Sum(r.sleeps)
    /\ budget' = [budget EXCEPT !.fail = IF r.resp THEN @ ELSE @ - 1]

(***************************************************************************)
(* Coordination lock, time helpers                                         *)
(***************************************************************************)
FreshWindow == Sec(5 * 60)

\* a lock exactly five minutes old still counted as fresh
FlowchatActiveInclusive ==
    IF ~lock.exists THEN FALSE ELSE now - lock.mtime <= FreshWindow

\* a lock file counted as fresh whatever its age
FlowchatActiveAnyAge ==
    IF ~lock.exists THEN FALSE ELSE TRUE

is_flowchat_active ==
    IF ~lock.exists THEN FALSE ELSE now - lock.mtime < FreshWindow

Day == Sec(24 * 3600)

HourOf(t) == (t % Day) \div Sec(3600)

seconds_until_hour(t, target_hour) ==
    LET midnight == t - (t % Day)
        target == midnight + Sec(target_hour * 3600)
    IN  IF target <= t THEN (target + Day) - t ELSE target - t

\* the first active hour counted as outside
OutsideActiveFirstHour(hour) ==
    hour <= cfg.active_start_hour \/ hour >= cfg.active_end_hour

OutsideActive(hour) ==
    hour < cfg.active_start_hour \/ hour >= cfg.active_end_hour

Jitters == {70, 100, 130}

SleepFloor == Sec(120)

\* the floor applied to the base interval, before the jitter
calculate_sleep_floor_first(base_interval, j) ==
    (Max(Sec(base_interval), SleepFloor) * j) \div 100

\* the jittered interval without the floor
calculate_sleep_no_floor(base_interval, j) == base_interval * j

\* calculate_sleep with the jitter factor j/100
calculate_sleep(base_interval, j) == Max(base_interval * j, SleepFloor)

(***************************************************************************)
(* Remote account                                                          *)
(***************************************************************************)
RemoteOutcome == {"ok", "LoginRequired", "ChallengeRequired",
                  "SelectContactPointRecoveryForm", "ClientError"}

Manual == {"ChallengeRequired", "SelectContactPointRecoveryForm"}

Amount == 20

\* cl.direct_messages(thread_id, amount): the most recent messages, newest first
direct_messages(t, amount) ==
    [i \in 1..Min(amount, nmsgs[t]) |-> nmsgs[t] - i + 1]

\* cl.direct_threads(selected_filter="unread"): some threads, in some order
ThreadListings ==
    {<< >>, << "t1" >>, << "t2" >>, << "t1", "t2" >>}

\* a thread counts as unread unless its newest message is one the account sent
Unread(t) == nmsgs[t] \notin own[t]

\* the walk with `continue` in place of `break`
RECURSIVE NewMsgsContinue(_, _)
NewMsgsContinue(messages, seen_id) ==
    IF messages = << >> THEN << >>
    ELSE IF Str(Head(messages)) = seen_id THEN NewMsgsContinue(Tail(messages), seen_id)
    ELSE << Head(messages) >> \o NewMsgsContinue(Tail(messages), seen_id)

\* the walk without the comparison against the watermark
NewMsgsAll(messages, seen_id) == messages

\* lines 317-321: walk the list, stop at the watermark
RECURSIVE NewMsgs(_, _)
NewMsgs(messages, seen_id) ==
    IF messages = << >> THEN << >>
    ELSE IF Str(Head(messages)) = seen_id THEN << >>
    ELSE << Head(messages) >> \o NewMsgs(Tail(messages), seen_id)

EmptyMap == [t \in Threads |-> None]

load_last_seen == IF disk.exists THEN disk.data ELSE EmptyMap

(***************************************************************************)
(* Pending replies                                                         *)
(***************************************************************************)
Missing == "<missing>"

Item(id, thread_id, text) == [id |-> id, thread_id |-> thread_id, message_text |-> text]

\* the values of item["id"] in the model
ReplyIds == {"r1", "r2", Missing}

InitQueues ==
    { << >>,
      << Item("r1", "t1", "hi") >>,
      << Item(Missing, "t1", "hi"), Item("r2", "t2", "yo") >>,
      << Item("r1", Missing, "hi"), Item("r2", "t2", "yo") >>,
      << Item("r1", "t1", Missing), Item("r2", "t2", "yo") >> }

\* the queue without the items whose id is `id`
RECURSIVE Without(_, _)
Without(q, id) ==
    IF q = << >> THEN << >>
    ELSE IF Head(q).id = id THEN Without(Tail(q), id)
    ELSE << Head(q) >> \o Without(Tail(q), id)

\* an item that is not an object: every subscript of it raises
Scalar == Item(Missing, Missing, Missing)

\* what the backend may answer to the pending-replies request:
\*   object           {"messages": [the queue]}
\*   no_messages      {} (no "messages" field)
\*   not_json         a body that is not JSON
\*   not_object       JSON that is not an object, e.g. []
\*   null_messages    {"messages": null}
\*   number_messages  {"messages": 0}
\*   scalar_items     {"messages": [7]}
Bodies == {"object", "no_messages", "not_json", "not_object",
           "null_messages", "number_messages", "scalar_items"}

\* a value fetch_pending_replies returns: sized tells whether len() and
\* iteration work on it, items is what iterating it yields
Returned(sized, items) == [sized |-> sized, items |-> items]

\* lines 226-232 with `return None` in place of the final `return []`
fetch_pending_replies_none(resp, b, q) ==
    IF ~resp THEN Returned(FALSE, << >>)
    ELSE IF b \in {"not_json", "not_object"} THEN Returned(FALSE, << >>)
    ELSE IF b = "no_messages" THEN Returned(TRUE, << >>)
    ELSE IF b \in {"null_messages", "number_messages"} THEN Returned(FALSE, << >>)
    ELSE IF b = "scalar_items" THEN Returned(TRUE, << Scalar >>)
    ELSE Returned(TRUE, q)

\* lines 226-232: the body parsed, .get("messages", []), [] when there is no
\* response or the try block raised
fetch_pending_replies(resp, b, q) ==
    IF ~resp THEN Returned(TRUE, << >>)
    ELSE IF b \in {"not_json", "not_object"} THEN Returned(TRUE, << >>)
    ELSE IF b = "no_messages" THEN Returned(TRUE, << >>)
    ELSE IF b \in {"null_messages", "number_messages"} THEN Returned(FALSE, << >>)
    ELSE IF b = "scalar_items" THEN Returned(TRUE, << Scalar >>)
    ELSE Returned(TRUE, q)

(***************************************************************************)
(* Locals                                                                  *)
(***************************************************************************)
NoLocals == [ threads |-> << >>, thread_id |-> "", messages |-> << >>,
              seen_id |-> None, new_msgs |-> << >>, messages_found |-> 0,
              messages_sent |-> 0, pending |-> << >>, base_interval |-> 0,
              sleep_for |-> 0, exc |-> "", pollCl |-> 0 ]

Heartbeat(status, found, sent, detail) ==
    [status |-> status, messages_found |-> found, messages_sent |-> sent,
     error_detail |-> detail]

\* bookkeeping of one remote-client call with outcome o
RemoteCall(o) ==
    /\ calls' = calls + 1
    /\ lastOut' = o
    /\ chal' = (chal \/ o \in Manual)
    /\ afterChal' = (afterChal \/ chal)

NoRemoteCall == UNCHANGED << calls, lastOut, chal, afterChal >>

\* every signal but LoginRequired treated as fatal
HandlerFatal(o) ==
    IF o = "LoginRequired" THEN "on_login_required" ELSE "on_challenge"

\* the except clause of main()'s loop that catches signal o
Handler(o) ==
    IF o = "LoginRequired" THEN "on_login_required"
    ELSE IF o \in Manual THEN "on_challenge"
    ELSE "on_error"

(***************************************************************************)
(* Initial states                                                          *)
(***************************************************************************)
Clock(h, m, s) == Sec(h * 3600 + m * 60 + s)

StartClocks == {Clock(8, 59, 30), Clock(20, 58, 0), Clock(21, 0, 0)}

NoLock == [exists |-> FALSE, mtime |-> 0]

\* the lock file as the cooperating tool left it before the agent started
InitLocks(t) == {NoLock, [exists |-> TRUE, mtime |-> t - Sec(4 * 60)],
                         [exists |-> TRUE, mtime |-> t - Sec(6 * 60)]}

\* no poll cycle has run in this process yet
NoGap == [how |-> "none", slept |-> 0]

\* a poll cycle has just ended: returned, raised (an unexpected failure) or
\* recovered (LoginRequired and a successful login)
Ended(how) == [how |-> how, slept |-> 0]

\* the scheduler has slept d more; the sum is kept up to the floor of
\* calculate_sleep
Slept(g, d) == [g EXCEPT !.slept = Min(@ + d, SleepFloor)]

IdleRequest == [state |-> "idle", method |-> "", outs |-> AllOk,
                resp |-> FALSE, attempts |-> 0, sleeps |-> << >>]

InitProcess ==
    /\ pc = "boot"
    /\ cl = 0 /\ made = 0
    /\ last_seen = EmptyMap
    /\ disk = [exists |-> FALSE, data |-> EmptyMap]
    /\ own = [t \in Threads |-> {}]
    /\ iter = 0
    /\ loc = NoLocals
    /\ hbs = << >> /\ calls = 0 /\ lastOut = "" /\ polled = FALSE
    /\ cycFwd = << >>
    /\ runFwd = [t \in Threads |-> << >>]
    /\ chal = FALSE /\ afterChal = FALSE
    /\ exitCode = -1
    /\ gap = NoGap
    /\ saves = 0
    /\ newest = [t \in Threads |-> 0]
    /\ sends = [id \in ReplyIds |-> 0]

Budget(f, a, t, r) == [fail |-> f, arrive |-> a, touch |-> t, restart |-> r]

\* messages arrive over the run; no pending reply
InitInbox ==
    /\ now = Clock(9, 0, 0) /\ lock = NoLock
    /\ session = 0
    /\ nmsgs = [t \in Threads |-> 0]
    /\ queue = << >>
    /\ budget = Budget(MaxFail, MaxArrive, 0, 0)
    /\ body = "object"

\* the agent exits and is started again, with messages waiting in both threads
InitRestarts ==
    /\ now = Clock(9, 0, 0) /\ lock = NoLock
    /\ session = 0
    /\ nmsgs = [t \in Threads |-> 1]
    /\ queue = << >>
    /\ budget = Budget(0, 0, 0, MaxRestart)
    /\ body = "object"

\* the agent starts at different hours, with different lock files
InitHours ==
    /\ now \in StartClocks /\ lock \in InitLocks(now)
    /\ session = 0
    /\ nmsgs = [t \in Threads |-> IF t = "t1" THEN 1 ELSE 0]
    /\ queue = << >>
    /\ budget = Budget(MaxFail, 0, MaxTouch, 0)
    /\ body = "object"

\* the backend holds pending replies
InitReplies ==
    /\ now = Clock(9, 0, 0) /\ lock = NoLock
    /\ session \in {0, 1}
    /\ nmsgs = [t \in Threads |-> 0]
    /\ queue \in InitQueues
    /\ budget = Budget(MaxFail, 0, 0, 0)
    /\ body = "object"

\* the backend answers the pending-replies request with a body of another shape
InitBodies ==
    /\ now = Clock(9, 0, 0) /\ lock = NoLock
    /\ session = 1
    /\ nmsgs = [t \in Threads |-> 0]
    /\ queue = << >>
    /\ budget = Budget(0, 0, 0, 0)
    /\ body \in Bodies \ {"object"}

\* the backend holds a reply for a thread in which the other party writes again
InitDialogue ==
    /\ now = Clock(9, 0, 0) /\ lock = NoLock
    /\ session = 1
    /\ nmsgs = [t \in Threads |-> 0]
    /\ queue = << Item("r1", "t1", "hi") >>
    /\ budget = Budget(0, 1, 0, 0)
    /\ body = "object"

Init ==
    /\ InitProcess
    /\ rq = IdleRequest
    /\ (InitInbox \/ InitRestarts \/ InitHours \/ InitReplies \/ InitBodies
        \/ InitDialogue)

(***************************************************************************)
(* Startup: build_client and the try block around it (lines 153-188,       *)
(* 397-410)                                                                *)
(***************************************************************************)
\* lines 155-171 / 183-184: Client(), load_settings when a session file exists, login
BuildClientLogin ==
    /\ pc = "boot"
    /\ \E o \in RemoteOutcome :
        /\ RemoteCall(o)
        /\ made' = made + 1
        /\ cl' = cl
        /\ loc' = [loc EXCEPT !.exc = IF o = "ok" THEN "" ELSE o,
                              !.pollCl = made + 1]
        /\ pc' = IF o # "ok" THEN "boot_failed"
                 ELSE IF session # 0 THEN "boot_feed" ELSE "boot_dump"
    /\ UNCHANGED << now, lock, session, last_seen, disk, nmsgs, own, queue,
                    iter, budget, hbs, polled, cycFwd, runFwd, exitCode, body,
                    sends, newest, saves, gap, rq >>

\* lines 172-181: the liveness call; on LoginRequired a fresh Client() and login
BuildClientFeed ==
    /\ pc = "boot_feed"
    /\ \E o \in RemoteOutcome :
        /\ RemoteCall(o)
        /\ IF o = "LoginRequired"
           THEN /\ pc' = "boot_relogin"
                /\ made' = made + 1
                /\ loc' = [loc EXCEPT !.pollCl = made + 1]
           ELSE /\ pc' = IF o = "ok" THEN "boot_dump" ELSE "boot_failed"
                /\ made' = made
                /\ loc' = [loc EXCEPT !.exc = IF o = "ok" THEN "" ELSE o]
    /\ UNCHANGED << now, lock, cl, session, last_seen, disk, nmsgs, own,
                    queue, iter, budget, hbs, polled, cycFwd, runFwd,
                    exitCode, body, sends, newest, saves, gap, rq >>

BuildClientRelogin ==
    /\ pc = "boot_relogin"
    /\ \E o \in RemoteOutcome :
        /\ RemoteCall(o)
        /\ pc' = IF o = "ok" THEN "boot_dump" ELSE "boot_failed"
        /\ loc' = [loc EXCEPT !.exc = IF o = "ok" THEN "" ELSE o]
    /\ UNCHANGED << now, lock, cl, made, session, last_seen, disk, nmsgs, own,
                    queue, iter, budget, hbs, polled, cycFwd, runFwd,
                    exitCode, body, sends, newest, saves, gap, rq >>

\* lines 186-188 and 409: dump_settings, return the client, load_last_seen
BuildClientDone ==
    /\ pc = "boot_dump"
    /\ session' = loc.pollCl
    /\ cl' = loc.pollCl
    /\ last_seen' = load_last_seen
    /\ loc' = NoLocals
    /\ pc' = "loop"
    /\ NoRemoteCall
    /\ UNCHANGED << now, lock, made, disk, nmsgs, own, queue, iter, budget,
                    hbs, polled, cycFwd, runFwd, exitCode, body, sends,
                    newest, saves, gap, rq >>

\* a failed login reported as session_expired whatever the signal
LoginFailureStatusFlat(exc) == "session_expired"

\* the heartbeat status of a failed login (lines 399-407 and 470-478)
LoginFailureStatus(exc) ==
    IF exc \in Manual THEN "challenge_required" ELSE "session_expired"

\* lines 399-407: heartbeat, sys.exit(1)
BootFailed ==
    /\ pc = "boot_failed"
    /\ \E outs \in BackendOuts : Backend(outs)
    /\ hbs' = Append(hbs, Heartbeat(LoginFailureStatus(loc.exc), 0, 0, loc.exc))
    /\ exitCode' = 1
    /\ pc' = "exited"
    /\ NoRemoteCall
    /\ UNCHANGED << lock, cl, made, session, last_seen, disk, nmsgs, own,
                    queue, iter, loc, polled, cycFwd, runFwd, body, sends,
                    newest, saves, gap, rq >>

(***************************************************************************)
(* The scheduler loop of main() (lines 413-458)                            *)
(***************************************************************************)
\* lines 424-430: outside the active hours
OutsideHours ==
    /\ pc = "loop" /\ iter < MaxIter
    /\ OutsideActive(HourOf(now))
    /\ iter' = iter + 1
    /\ loc' = [NoLocals EXCEPT !.sleep_for = seconds_until_hour(now, cfg.active_start_hour)]
    /\ \E outs \in BackendOuts : Backend(outs)
    /\ hbs' = << Heartbeat("ok", 0, 0, None) >>
    /\ calls' = 0 /\ lastOut' = "" /\ saves' = 0
    /\ polled' = FALSE /\ cycFwd' = << >>
    /\ pc' = "sleep"
    /\ UNCHANGED << lock, cl, made, session, last_seen, disk, nmsgs, own,
                    queue, runFwd, chal, afterChal, exitCode, body, sends,
                    newest, gap, rq >>

\* lines 433-436: the cooperating tool is active
FlowChatSkip ==
    /\ pc = "loop" /\ iter < MaxIter
    /\ ~OutsideActive(HourOf(now))
    /\ is_flowchat_active
    /\ iter' = iter + 1
    /\ loc' = [NoLocals EXCEPT !.sleep_for = Sec(30)]
    /\ hbs' = << >> /\ calls' = 0 /\ lastOut' = "" /\ saves' = 0
    /\ polled' = FALSE /\ cycFwd' = << >>
    /\ pc' = "sleep"
    /\ UNCHANGED << now, lock, cl, made, session, last_seen, disk, nmsgs, own,
                    queue, budget, runFwd, chal, afterChal, exitCode, body,
                    sends, newest, gap, rq >>

\* lines 439-446: choose the base interval and enter poll_cycle
BeginPoll ==
    /\ pc = "loop" /\ iter < MaxIter
    /\ ~OutsideActive(HourOf(now))
    /\ ~is_flowchat_active
    /\ iter' = iter + 1
    /\ loc' = [NoLocals EXCEPT
                 !.base_interval = IF HourOf(now) >= cfg.winddown_start_hour
                                   THEN cfg.poll_interval_winddown_sec
                                   ELSE cfg.poll_interval_active_sec,
                 !.pollCl = cl]
    /\ hbs' = << >> /\ calls' = 0 /\ lastOut' = "" /\ saves' = 0
    /\ polled' = TRUE /\ cycFwd' = << >>
    /\ pc' = "threads"
    /\ UNCHANGED << now, lock, cl, made, session, last_seen, disk, nmsgs, own,
                    queue, budget, runFwd, chal, afterChal, exitCode, body,
                    sends, newest, gap, rq >>

\* what the next iteration starts from: its locals are assigned before they are
\* read, and the per-iteration records start empty
NextIteration ==
    /\ pc' = "loop"
    /\ loc' = NoLocals
    /\ hbs' = << >> /\ calls' = 0 /\ lastOut' = "" /\ saves' = 0
    /\ polled' = FALSE /\ cycFwd' = << >>

\* time.sleep(sleep_for) at lines 429, 435, 458 and 495, then the next iteration
Sleep ==
    /\ pc = "sleep"
    /\ now' = now + loc.sleep_for
    /\ gap' = Slept(gap, loc.sleep_for)
    /\ NextIteration
    /\ UNCHANGED << lock, cl, made, session, last_seen, disk, nmsgs, own,
                    queue, iter, budget, runFwd, chal, afterChal, exitCode,
                    body, sends, newest, rq >>

(***************************************************************************)
(* poll_cycle (lines 297-379)                                              *)
(***************************************************************************)
\* line 309: cl.direct_threads(selected_filter="unread")
DirectThreads ==
    /\ pc = "threads"
    /\ \E o \in RemoteOutcome :
        /\ RemoteCall(o)
        /\ IF o = "ok"
           THEN \E ts \in ThreadListings :
                    /\ \A i \in 1..Len(ts) : Unread(ts[i])
                    /\ loc' = [loc EXCEPT !.threads = ts]
                    /\ pc' = "thread"
           ELSE /\ loc' = [loc EXCEPT !.exc = o]
                /\ pc' = Handler(o)
    /\ UNCHANGED << now, lock, cl, made, session, last_seen, disk, nmsgs, own,
                    queue, iter, budget, hbs, polled, cycFwd, runFwd,
                    exitCode, body, sends, newest, saves, gap, rq >>

\* lines 312-329: next thread of the for loop: fetch its messages, collect the new ones
DirectMessages ==
    /\ pc = "thread" /\ loc.threads # << >>
    /\ \E o \in RemoteOutcome :
        /\ RemoteCall(o)
        /\ IF o = "ok"
           THEN LET t == Head(loc.threads)
                    messages == direct_messages(t, Amount)
                    seen_id == last_seen[t]
                    new_msgs == NewMsgs(messages, seen_id)
                IN  IF new_msgs = << >>
                    THEN /\ loc' = [loc EXCEPT !.threads = Tail(loc.threads),
                                               !.thread_id = t,
                                               !.messages = messages,
                                               !.seen_id = seen_id,
                                               !.new_msgs = << >>]
                         /\ pc' = "thread"
                    ELSE /\ loc' = [loc EXCEPT
                                      !.thread_id = t,
                                      !.messages = messages,
                                      !.seen_id = seen_id,
                                      !.new_msgs = Reverse(new_msgs),
                                      !.messages_found = @ + Len(new_msgs)]
                         /\ pc' = "forward"
           ELSE /\ loc' = [loc EXCEPT !.exc = o]
                /\ pc' = Handler(o)
    /\ cycFwd' = << >>
    /\ UNCHANGED << now, lock, cl, made, session, last_seen, disk, nmsgs, own,
                    queue, iter, budget, hbs, polled, runFwd, exitCode, body,
                    sends, newest, saves, gap, rq >>

\* the watermark taken from the other end of the list
WatermarkOldest(messages) == Str(messages[Len(messages)])

\* the watermark line 363 writes
Watermark(messages) == Str(messages[1])

\* which of n forwards the backend lets fail (0: none)
FailChoices(n) == IF budget.fail > 0 THEN {0, 1, n} ELSE {0}

\* lines 331-363: forward every new message, oldest first, then move the watermark
ForwardNew ==
    /\ pc = "forward"
    /\ \E f \in FailChoices(Len(loc.new_msgs)) :
        LET outs(i) == IF i = f THEN AllFail ELSE AllOk
            result(i) == request_with_retry(outs(i))
        IN  /\ cycFwd' = [i \in 1..Len(loc.new_msgs) |->
                            [message_id |-> Str(loc.new_msgs[i]),
                             thread_id |-> loc.thread_id,
                             delivered |-> result(i).resp]]
            /\ now' = now + Sum([i \in 1..Len(loc.new_msgs) |-> Sum(result(i).sleeps)])
            /\ budget' = [budget EXCEPT !.fail = IF f = 0 THEN @ ELSE @ - 1]
    /\ runFwd' = [runFwd EXCEPT ![loc.thread_id] = @ \o loc.new_msgs]
    /\ newest' = [newest EXCEPT ![loc.thread_id] =
                              Max(@, loc.new_msgs[Len(loc.new_msgs)])]
    /\ last_seen' = [last_seen EXCEPT ![loc.thread_id] = Watermark(loc.messages)]
    /\ loc' = [loc EXCEPT !.threads = Tail(@), !.new_msgs = << >>]
    /\ pc' = "thread"
    /\ NoRemoteCall
    /\ UNCHANGED << lock, cl, made, session, disk, nmsgs, own, queue, iter,
                    hbs, polled, exitCode, body, sends, saves, gap, rq >>

\* lines 223-232 and 366-367: fetch_pending_replies, then len(pending)
FetchPendingReplies ==
    /\ pc = "thread" /\ loc.threads = << >>
    /\ \E outs \in BackendOuts :
        /\ Backend(outs)
        /\ LET pending == fetch_pending_replies(request_with_retry(outs).resp,
                                                body, queue)
           IN  IF pending.sized
               THEN /\ loc' = [loc EXCEPT !.pending = pending.items]
                    /\ pc' = "reply"
               ELSE \* line 367: len() of None or of a number raises TypeError
                    /\ loc' = [loc EXCEPT !.exc = "TypeError"]
                    /\ pc' = Handler("TypeError")
    /\ NoRemoteCall
    /\ UNCHANGED << lock, cl, made, session, last_seen, disk, nmsgs, own,
                    queue, iter, hbs, polled, cycFwd, runFwd, exitCode, body,
                    sends, newest, saves, gap, rq >>

\* the backend drops a reply from its pending queue when it is confirmed
BackendConfirm(q, id) == Without(q, id)

\* lines 369-377: the next pending reply
SendReply ==
    /\ pc = "reply" /\ loc.pending # << >>
    /\ LET item == Head(loc.pending)
           skip == /\ loc' = [loc EXCEPT !.pending = Tail(@)]
                   /\ pc' = "reply"
           \* line 377 reads item["id"] inside the except clause
           caught == IF item.id = Missing
                     THEN LET e == IF item = Scalar THEN "TypeError" ELSE "KeyError"
                          IN  /\ loc' = [loc EXCEPT !.exc = e]
                              /\ pc' = Handler(e)
                     ELSE skip
       IN
       IF item.thread_id = Missing \/ item.message_text = Missing
       THEN \* line 371 raises KeyError before the call
            /\ caught
            /\ NoRemoteCall
            /\ UNCHANGED << now, budget, nmsgs, own, queue, sends >>
       ELSE \E o \in RemoteOutcome :
            /\ RemoteCall(o)
            /\ IF o # "ok"
               THEN /\ caught
                    /\ UNCHANGED << now, budget, nmsgs, own, queue, sends >>
               ELSE /\ nmsgs' = [nmsgs EXCEPT ![item.thread_id] = @ + 1]
                    /\ sends' = [sends EXCEPT ![item.id] = @ + 1]
                    /\ own' = [own EXCEPT ![item.thread_id] =
                                              @ \cup {nmsgs[item.thread_id] + 1}]
                    /\ IF item.id = Missing
                       THEN \* line 373 raises KeyError, and line 377 again
                            /\ caught
                            /\ UNCHANGED << now, budget, queue >>
                       ELSE \E outs \in BackendOuts :
                            /\ Backend(outs)
                            /\ queue' = IF request_with_retry(outs).resp
                                        THEN BackendConfirm(queue, item.id)
                                        ELSE queue
                            /\ loc' = [loc EXCEPT !.pending = Tail(@),
                                                  !.messages_sent = @ + 1]
                            /\ pc' = "reply"
    /\ UNCHANGED << lock, cl, made, session, last_seen, disk, iter, hbs,
                    polled, cycFwd, runFwd, exitCode, body, newest, saves,
                    gap, rq >>

\* the file written only when the map has an entry
save_last_seen_if_touched(data) ==
    IF data = EmptyMap THEN disk ELSE [exists |-> TRUE, data |-> data]

\* lines 120-123: the file after save_last_seen(data)
save_last_seen(data) == [exists |-> TRUE, data |-> data]

\* line 379 and lines 446-449: poll_cycle returns, save_last_seen
SaveLastSeen ==
    /\ pc = "reply" /\ loc.pending = << >>
    /\ disk' = save_last_seen(last_seen)
    /\ saves' = saves + 1
    /\ gap' = Ended("returned")
    /\ pc' = "heartbeat"
    /\ NoRemoteCall
    /\ UNCHANGED << now, lock, cl, made, session, last_seen, nmsgs, own,
                    queue, iter, budget, loc, hbs, polled, cycFwd, runFwd,
                    exitCode, body, sends, newest, rq >>

\* lines 452-457: the ok heartbeat and calculate_sleep
HeartbeatOk ==
    /\ pc = "heartbeat"
    /\ \E outs \in BackendOuts : Backend(outs)
    /\ hbs' = Append(hbs, Heartbeat("ok", loc.messages_found, loc.messages_sent, None))
    /\ \E j \in Jitters :
         loc' = [loc EXCEPT !.sleep_for = calculate_sleep(loc.base_interval, j)]
    /\ pc' = "sleep"
    /\ NoRemoteCall
    /\ UNCHANGED << lock, cl, made, session, last_seen, disk, nmsgs, own,
                    queue, iter, polled, cycFwd, runFwd, exitCode, body,
                    sends, newest, saves, gap, rq >>

(***************************************************************************)
(* The except clauses of the loop (lines 460-495)                          *)
(***************************************************************************)
\* lines 460-478: LoginRequired: a fresh client and one login
OnLoginRequired ==
    /\ pc = "on_login_required"
    /\ made' = made + 1
    /\ cl' = made + 1
    /\ \E o \in RemoteOutcome :
        /\ RemoteCall(o)
        /\ IF o = "ok"
           THEN /\ session' = made + 1
                /\ pc' = "loop"
                /\ gap' = Ended("recovered")
                /\ UNCHANGED << now, budget, hbs, exitCode >>
           ELSE /\ \E outs \in BackendOuts : Backend(outs)
                /\ hbs' = Append(hbs, Heartbeat(LoginFailureStatus(o), 0, 0, o))
                /\ exitCode' = 1
                /\ pc' = "exited"
                /\ session' = session
                /\ gap' = gap
    /\ UNCHANGED << lock, last_seen, disk, nmsgs, own, queue, iter, loc,
                    polled, cycFwd, runFwd, body, sends, newest, saves, rq >>

\* lines 480-484: manual verification required
OnChallenge ==
    /\ pc = "on_challenge"
    /\ \E outs \in BackendOuts : Backend(outs)
    /\ hbs' = Append(hbs, Heartbeat("challenge_required", 0, 0, loc.exc))
    /\ exitCode' = 1
    /\ pc' = "exited"
    /\ NoRemoteCall
    /\ UNCHANGED << lock, cl, made, session, last_seen, disk, nmsgs, own,
                    queue, iter, loc, polled, cycFwd, runFwd, body, sends,
                    newest, saves, gap, rq >>

\* lines 486-495: any other exception
OnError ==
    /\ pc = "on_error"
    /\ \E outs \in BackendOuts : Backend(outs)
    /\ hbs' = Append(hbs, Heartbeat("error", 0, 0, loc.exc))
    /\ \E j \in Jitters :
         loc' = [loc EXCEPT !.sleep_for = calculate_sleep(cfg.poll_interval_active_sec, j)]
    /\ pc' = "sleep"
    /\ gap' = Ended("raised")
    /\ NoRemoteCall
    /\ UNCHANGED << lock, cl, made, session, last_seen, disk, nmsgs, own,
                    queue, iter, polled, cycFwd, runFwd, exitCode, body,
                    sends, newest, saves, rq >>

(***************************************************************************)
(* The environment                                                         *)
(***************************************************************************)
\* the other party sends messages: one, or more than a lookback window
Arrive ==
    /\ pc = "loop" /\ iter < MaxIter
    /\ budget.arrive > 0
    /\ budget' = [budget EXCEPT !.arrive = @ - 1]
    /\ \E t \in Threads :
        \E k \in {1} \cup (IF nmsgs[t] < Amount THEN {Amount + 1} ELSE {}) :
            nmsgs' = [nmsgs EXCEPT ![t] = @ + k]
    /\ UNCHANGED << pc, now, lock, cl, made, session, last_seen, disk, own,
                    queue, iter, loc, hbs, calls, lastOut, polled, cycFwd,
                    runFwd, chal, afterChal, exitCode, body, sends, newest,
                    saves, gap, rq >>

\* the cooperating tool refreshes its lock file
FlowChatTouch ==
    /\ pc \in {"loop", "threads"}
    /\ budget.touch > 0
    /\ budget' = [budget EXCEPT !.touch = @ - 1]
    /\ lock' = [exists |-> TRUE, mtime |-> now]
    /\ UNCHANGED << pc, now, cl, made, session, last_seen, disk, nmsgs, own,
                    queue, iter, loc, hbs, calls, lastOut, polled, cycFwd,
                    runFwd, chal, afterChal, exitCode, body, sends, newest,
                    saves, gap, rq >>

\* the operator starts the agent again after it exited
Restart ==
    /\ pc = "exited" /\ budget.restart > 0 /\ iter < MaxIter
    /\ budget' = [budget EXCEPT !.restart = @ - 1]
    /\ pc' = "boot"
    /\ cl' = 0 /\ made' = 0
    /\ last_seen' = EmptyMap
    /\ loc' = NoLocals
    /\ hbs' = << >> /\ calls' = 0 /\ lastOut' = "" /\ saves' = 0
    /\ polled' = FALSE /\ cycFwd' = << >>
    /\ runFwd' = [t \in Threads |-> << >>]
    /\ chal' = FALSE /\ afterChal' = FALSE
    /\ exitCode' = -1
    /\ gap' = NoGap
    /\ UNCHANGED << now, lock, session, disk, nmsgs, own, queue, iter, body,
                    sends, newest, rq >>

Next ==
    \/ BuildClientLogin \/ BuildClientFeed \/ BuildClientRelogin
    \/ BuildClientDone \/ BootFailed
    \/ OutsideHours \/ FlowChatSkip \/ BeginPoll \/ Sleep
    \/ DirectThreads \/ DirectMessages \/ ForwardNew
    \/ FetchPendingReplies \/ SendReply \/ SaveLastSeen \/ HeartbeatOk
    \/ OnLoginRequired \/ OnChallenge \/ OnError
    \/ Arrive \/ FlowChatTouch \/ Restart

Spec == Init /\ [][Next]_vars

(***************************************************************************)
(* One call of _request_with_retry on its own                              *)
(***************************************************************************)
InitRetry ==
    /\ InitProcess
    /\ now = 0 /\ lock = NoLock /\ queue = << >> /\ session = 0
    /\ nmsgs = [t \in Threads |-> 0]
    /\ budget = Budget(0, 0, 0, 0)
    /\ body = "object"
    /\ rq \in { [state |-> "call", method |-> m, outs |-> outs,
                 resp |-> FALSE, attempts |-> 0, sleeps |-> << >>] :
                m \in {"GET", "POST"}, outs \in AttemptSeqs }

RequestWithRetry ==
    /\ rq.state = "call"
    /\ LET r == request_with_retry(rq.outs) IN
        /\ rq' = [rq EXCEPT !.state = "returned", !.resp = r.resp,
                            !.attempts = r.attempts, !.sleeps = r.sleeps]
        /\ now' = now + Sum(r.sleeps)
    /\ UNCHANGED << pc, lock, cl, made, session, last_seen, disk, nmsgs, own,
                    queue, iter, budget, loc, hbs, calls, lastOut, polled,
                    cycFwd, runFwd, chal, afterChal, exitCode, body, sends,
                    newest, saves, gap >>

NextRetry == RequestWithRetry

SpecRetry == InitRetry /\ [][NextRetry]_vars

(***************************************************************************)
(* One call of calculate_sleep on its own                                  *)
(***************************************************************************)
MaxInterval == 400

\* the jitter factors random.uniform(0.7, 1.3) is drawn from, in percent
JitterRange == 70..130

InitSleep ==
    /\ InitProcess
    /\ now = 0 /\ lock = NoLock /\ queue = << >> /\ session = 0
    /\ nmsgs = [t \in Threads |-> 0]
    /\ budget = Budget(0, 0, 0, 0)
    /\ body = "object"
    /\ rq \in { [state |-> "call", base_interval |-> I, jitter |-> 0, result |-> 0] :
                I \in 0..MaxInterval }

CalculateSleep ==
    /\ rq.state = "call"
    /\ \E j \in JitterRange :
         rq' = [rq EXCEPT !.state = "returned", !.jitter = j,
                          !.result = calculate_sleep(rq.base_interval, j)]
    /\ UNCHANGED << pc, now, lock, cl, made, session, last_seen, disk, nmsgs,
                    own, queue, iter, budget, loc, hbs, calls, lastOut,
                    polled, cycFwd, runFwd, chal, afterChal, exitCode, body,
                    sends, newest, saves, gap >>

NextSleep == CalculateSleep

SpecSleep == InitSleep /\ [][NextSleep]_vars

(***************************************************************************)
(* The scheduler of main() over days without end (lines 413-495): the      *)
(* clock is kept as the time of day and the age of the lock is kept up to  *)
(* the five minutes that is_flowchat_active tells apart; iterations and    *)
(* clients are not numbered.  Every backend call answers at its first      *)
(* attempt, and the active window is one hour long.                        *)
(***************************************************************************)
\* the lock file d later, at time of day t: its age grows by d
Aged(l, d, t) ==
    IF l.exists
    THEN [exists |-> TRUE, mtime |-> t - Min((now - l.mtime) + d, FreshWindow)]
    ELSE l

\* a configuration whose active window is the one hour from 09:00 to 10:00
cfgLive == [cfg EXCEPT !.active_end_hour = 10]

\* line 424 under cfgLive
LiveOutside(hour) ==
    hour < cfgLive.active_start_hour \/ hour >= cfgLive.active_end_hour

\* the agent is started at 09:00 without a saved session, next to a lock file
\* left over from the day before; t1 holds one message
InitLive ==
    /\ InitProcess
    /\ rq = IdleRequest
    /\ now = Clock(9, 0, 0)
    /\ lock = [exists |-> TRUE, mtime |-> Clock(9, 0, 0) - FreshWindow]
    /\ session = 0
    /\ nmsgs = [t \in Threads |-> IF t = "t1" THEN 1 ELSE 0]
    /\ queue = << >>
    /\ budget = Budget(0, 0, 0, 0)
    /\ body = "object"

\* lines 424-430: outside the active hours
LiveOutsideHours ==
    /\ pc = "loop"
    /\ LiveOutside(HourOf(now))
    /\ loc' = [NoLocals EXCEPT !.sleep_for = seconds_until_hour(now, cfgLive.active_start_hour)]
    /\ hbs' = << Heartbeat("ok", 0, 0, None) >>
    /\ calls' = 0 /\ lastOut' = "" /\ saves' = 0
    /\ polled' = FALSE /\ cycFwd' = << >>
    /\ pc' = "sleep"
    /\ UNCHANGED << now, lock, cl, made, session, last_seen, disk, nmsgs, own,
                    queue, iter, budget, runFwd, chal, afterChal, exitCode,
                    body, sends, newest, gap, rq >>

\* lines 433-436: the cooperating tool is active
LiveFlowChatSkip ==
    /\ pc = "loop"
    /\ ~LiveOutside(HourOf(now))
    /\ is_flowchat_active
    /\ loc' = [NoLocals EXCEPT !.sleep_for = Sec(30)]
    /\ hbs' = << >> /\ calls' = 0 /\ lastOut' = "" /\ saves' = 0
    /\ polled' = FALSE /\ cycFwd' = << >>
    /\ pc' = "sleep"
    /\ UNCHANGED << now, lock, cl, made, session, last_seen, disk, nmsgs, own,
                    queue, iter, budget, runFwd, chal, afterChal, exitCode,
                    body, sends, newest, gap, rq >>

\* lines 439-446: choose the base interval and enter poll_cycle
LiveBeginPoll ==
    /\ pc = "loop"
    /\ ~LiveOutside(HourOf(now))
    /\ ~is_flowchat_active
    /\ loc' = [NoLocals EXCEPT
                 !.base_interval = IF HourOf(now) >= cfgLive.winddown_start_hour
                                   THEN cfgLive.poll_interval_winddown_sec
                                   ELSE cfgLive.poll_interval_active_sec,
                 !.pollCl = cl]
    /\ hbs' = << >> /\ calls' = 0 /\ lastOut' = "" /\ saves' = 0
    /\ polled' = TRUE /\ cycFwd' = << >>
    /\ pc' = "threads"
    /\ UNCHANGED << now, lock, cl, made, session, last_seen, disk, nmsgs, own,
                    queue, iter, budget, runFwd, chal, afterChal, exitCode,
                    body, sends, newest, gap, rq >>

\* time.sleep(sleep_for) at lines 429, 435, 458 and 495, then the next iteration
LiveSleep ==
    /\ pc = "sleep"
    /\ now' = (now + loc.sleep_for) % Day
    /\ lock' = Aged(lock, loc.sleep_for, now')
    /\ NextIteration
    /\ UNCHANGED << cl, made, session, last_seen, disk, nmsgs, own, queue,
                    iter, budget, runFwd, chal, afterChal, exitCode, body,
                    sends, newest, gap, rq >>

\* lines 460-478: LoginRequired: a fresh client and one login
LiveOnLoginRequired ==
    /\ pc = "on_login_required"
    /\ \E o \in RemoteOutcome :
        /\ RemoteCall(o)
        /\ IF o = "ok"
           THEN /\ session' = cl
                /\ pc' = "loop"
                /\ gap' = Ended("recovered")
                /\ UNCHANGED << hbs, exitCode >>
           ELSE /\ hbs' = Append(hbs, Heartbeat(LoginFailureStatus(o), 0, 0, o))
                /\ exitCode' = 1
                /\ pc' = "exited"
                /\ session' = session
                /\ gap' = gap
    /\ UNCHANGED << now, lock, cl, made, last_seen, disk, nmsgs, own, queue,
                    iter, budget, loc, polled, cycFwd, runFwd, body, sends,
                    newest, saves, rq >>

\* the cooperating tool refreshes its lock file, as often as it likes
LiveFlowChatTouch ==
    /\ pc = "loop"
    /\ lock' = [exists |-> TRUE, mtime |-> now]
    /\ UNCHANGED << pc, now, cl, made, session, last_seen, disk, nmsgs, own,
                    queue, iter, budget, loc, hbs, calls, lastOut, polled,
                    cycFwd, runFwd, chal, afterChal, exitCode, body, sends,
                    newest, saves, gap, rq >>

\* the steps of the agent's process
LiveAgent ==
    \/ BuildClientLogin \/ BuildClientDone \/ BootFailed
    \/ LiveOutsideHours \/ LiveFlowChatSkip \/ LiveBeginPoll \/ LiveSleep
    \/ DirectThreads \/ DirectMessages \/ ForwardNew
    \/ FetchPendingReplies \/ SaveLastSeen \/ HeartbeatOk
    \/ LiveOnLoginRequired \/ OnChallenge \/ OnError

NextLive == LiveAgent \/ LiveFlowChatTouch

\* every sleep and every call returns: the process is never left waiting
SpecLive == InitLive /\ [][NextLive]_vars /\ WF_vars(LiveAgent)

(***************************************************************************)
(* Properties                                                              *)
(***************************************************************************)
Ids(fwd) == [i \in 1..Len(fwd) |-> fwd[i].message_id]

Last(s) == s[Len(s)]

\* the fetched messages in front of the first one whose id is W, oldest first
NewerThan(messages, W) ==
    LET front == {i \in 1..Len(messages) :
                     \A j \in 1..i : Str(messages[j]) # W}
        k == Cardinality(front)
    IN  [i \in 1..k |-> Str(messages[k - i + 1])]

\* the thread whose processing has just ended, if any
ThreadDone == pc = "thread" /\ loc.thread_id # ""

\* C1: when a thread has been processed, the messages handed to
\* forward_message for it are exactly the fetched messages that come before
\* the first one whose id is the stored watermark (all of them when there is
\* none), oldest first; the fetched list is the up to 20 most recent
\* messages of the thread, newest first.
C1_ForwardsNewerThanWatermark ==
    ThreadDone =>
        /\ Ids(cycFwd) = NewerThan(loc.messages, loc.seen_id)
        /\ \A i \in 1..Len(cycFwd) : cycFwd[i].thread_id = loc.thread_id
        /\ Len(loc.messages) = Min(20, nmsgs[loc.thread_id])
        /\ \A i \in 1..Len(loc.messages) :
               loc.messages[i] = nmsgs[loc.thread_id] - i + 1

\* a thread with a watermark inside the fetched window and newer messages
C1_Witness ==
    /\ ThreadDone
    /\ loc.seen_id # None
    /\ Len(cycFwd) >= 1
    /\ Len(cycFwd) < Len(loc.messages)

\* a thread whose watermark has dropped out of the fetched window
C1_WitnessOutOfWindow ==
    /\ ThreadDone
    /\ loc.seen_id # None
    /\ Len(cycFwd) = Amount

\* C2: when a thread with at least one new message has been processed, its
\* watermark is the id of the newest fetched message, whether or not the
\* forwards were delivered; a thread without new messages keeps the
\* watermark it had.
C2_WatermarkIsNewestFetched ==
    ThreadDone =>
        IF loc.messages # << >> /\ Str(loc.messages[1]) # loc.seen_id
        THEN last_seen[loc.thread_id] = Str(loc.messages[1])
        ELSE last_seen[loc.thread_id] = loc.seen_id

\* the watermark has moved although a forward failed after all its attempts
C2_Witness ==
    /\ ThreadDone
    /\ \E i \in 1..Len(cycFwd) : ~cycFwd[i].delivered
    /\ last_seen[loc.thread_id] = Str(loc.messages[1])
    /\ last_seen[loc.thread_id] # loc.seen_id

\* C3: within one process run no message id is handed to forward_message
\* twice, and the ids forwarded for a thread are in chronological order.
C3_NoRepeatInOrder ==
    \A t \in Threads :
        \A i \in 1..Len(runFwd[t]) : \A j \in 1..Len(runFwd[t]) :
            i < j => runFwd[t][i] < runFwd[t][j]

\* a later cycle forwards more messages of a thread an earlier cycle forwarded from
C3_Witness ==
    /\ ThreadDone
    /\ Len(cycFwd) >= 1
    /\ Len(runFwd[loc.thread_id]) > Len(cycFwd)
    /\ iter >= 2

\* the position of the first successful attempt (0: none)
FirstOk(outs) ==
    IF \E k \in 1..3 : outs[k] = "ok"
    THEN CHOOSE k \in 1..3 : outs[k] = "ok" /\ \A j \in 1..(k - 1) : outs[j] # "ok"
    ELSE 0

\* C4: a backend call makes at most 3 attempts and sleeps 2, 4, 8 seconds
\* after the 1st, 2nd, 3rd failed attempt; after three failures it returns
\* no response; the first successful attempt ends the call, with no further
\* attempt and no further sleep.
C4_RetrySchedule ==
    rq.state = "returned" =>
        LET k == FirstOk(rq.outs)
            schedule == << Sec(2), Sec(4), Sec(8) >>
        IN  /\ rq.attempts <= 3
            /\ IF k = 0
               THEN /\ ~rq.resp /\ rq.attempts = 3 /\ rq.sleeps = schedule
               ELSE /\ rq.resp /\ rq.attempts = k
                    /\ rq.sleeps = SubSeq(schedule, 1, k - 1)
            /\ now = Sum(rq.sleeps)

\* three failures in a row
C4_Witness ==
    /\ rq.state = "returned"
    /\ \A k \in 1..3 : rq.outs[k] # "ok"
    /\ rq.sleeps = << 200, 400, 800 >>

\* the iteration that starts in this step
IterationStarts == pc = "loop" /\ iter' = iter + 1

OkHeartbeatZero == Heartbeat("ok", 0, 0, None)

\* C5: an iteration finds the hour outside the active window exactly when
\* hour < active_start or hour >= active_end; it then sends one heartbeat
\* with status ok and zero counts, runs no poll cycle, calls the remote
\* client not at all, leaves the watermarks alone and sleeps the time left to
\* the next active_start:00 (today's if still ahead, else tomorrow's); the
\* sleep over, the loop evaluates again.
C5_OutsideActiveHours ==
    /\ [][IterationStarts =>
            LET hour == (now % Day) \div Sec(3600)
                outside == hour < cfg.active_start_hour \/ hour >= cfg.active_end_hour
                skipped == /\ pc' = "sleep" /\ ~polled' /\ calls' = 0
                           /\ hbs' = << OkHeartbeatZero >>
            IN  /\ outside <=> skipped
                /\ outside =>
                     /\ loc'.sleep_for \in 1..Day
                     /\ (now + loc'.sleep_for) % Day = Sec(cfg.active_start_hour * 3600)
                     /\ UNCHANGED << last_seen, disk, cl, session, chal,
                                     afterChal >>
         ]_vars
    /\ [][pc = "sleep" => pc' = "loop" /\ now' = now + loc.sleep_for]_vars

\* at 21:00 the agent has sent the heartbeat and is about to sleep the 12
\* hours to 09:00 of the next day
C5_Witness ==
    /\ pc = "sleep" /\ ~polled /\ hbs = << OkHeartbeatZero >>
    /\ (now % Day) \div Sec(3600) = 21
    /\ loc.sleep_for = Sec(12 * 3600)

\* the step is taken by the cooperating tool
ToolStep == budget'.touch = budget.touch - 1

\* C6: in an iteration inside the active window, a lock file that exists
\* and was modified less than 5 minutes ago makes the iteration skip the poll
\* cycle: no heartbeat, no remote-client call, watermarks untouched, a sleep
\* of exactly 30 seconds, then the loop evaluates again; with no lock file,
\* or one 5 minutes old or older, the poll cycle is entered.  No step of the
\* agent changes the lock file.
C6_LockSkip ==
    /\ [][(IterationStarts /\ ~OutsideActive(HourOf(now))) =>
            LET fresh == lock.exists /\ now - lock.mtime < Sec(5 * 60)
            IN  IF fresh
                THEN /\ pc' = "sleep" /\ ~polled' /\ calls' = 0
                     /\ hbs' = << >>
                     /\ loc'.sleep_for = Sec(30)
                     /\ UNCHANGED << now, last_seen, disk >>
                ELSE /\ pc' = "threads" /\ polled'
         ]_vars
    /\ [][lock' # lock => ToolStep]_vars

\* a lock file modified 4 minutes ago has made the iteration skip
C6_Witness ==
    /\ pc = "sleep" /\ ~polled /\ hbs = << >>
    /\ lock.exists /\ now - lock.mtime = Sec(4 * 60)
    /\ loc.sleep_for = Sec(30)

\* a lock file modified 6 minutes ago has not blocked the poll cycle
C6_WitnessStale ==
    /\ pc = "threads" /\ polled
    /\ lock.exists /\ now - lock.mtime = Sec(6 * 60)

PollPcs == {"threads", "thread", "forward", "reply"}

\* C7: on LoginRequired out of a poll cycle the scheduler builds one fresh
\* client and makes exactly one login call.  If it succeeds the session is
\* dumped from the new client, the new client is the one main() holds and
\* the loop goes on without a heartbeat; if it fails, one heartbeat is sent,
\* challenge_required for a manual-verification signal and session_expired
\* for any other, and the process exits with code 1.  Every poll cycle runs
\* on the client built last.
C7_RecoveryLogin ==
    /\ [][pc = "on_login_required" =>
            /\ calls' = calls + 1
            /\ made' = made + 1
            /\ \/ /\ pc' = "loop" /\ exitCode' = -1
                  /\ cl' = made' /\ cl' # cl
                  /\ session' = cl'
                  /\ hbs' = hbs
               \/ /\ pc' = "exited" /\ exitCode' = 1
                  /\ Len(hbs') = Len(hbs) + 1
                  /\ SubSeq(hbs', 1, Len(hbs)) = hbs
                  /\ Last(hbs').messages_found = 0 /\ Last(hbs').messages_sent = 0
                  /\ Last(hbs').error_detail # "ok"
                  /\ Last(hbs').status =
                        IF Last(hbs').error_detail \in
                              {"ChallengeRequired", "SelectContactPointRecoveryForm"}
                        THEN "challenge_required" ELSE "session_expired"
         ]_vars
    /\ [](pc \in PollPcs => loc.pollCl = made /\ loc.pollCl = cl)

\* the recovery login has just succeeded: main() holds the second client,
\* its session is dumped, and the loop is about to evaluate again
C7_Witness ==
    /\ pc = "loop" /\ exitCode = -1
    /\ loc.exc = "LoginRequired"
    /\ made = 2 /\ cl = 2 /\ session = 2

HandlerPcs == {"on_login_required", "on_challenge", "on_error"}

\* C8: once a remote-client call has raised ChallengeRequired or
\* SelectContactPointRecoveryForm, the agent makes no further remote-client
\* call: it is on its way to the challenge_required heartbeat, or has exited
\* with code 1 after sending it.
C8_ChallengeIsFatal ==
    /\ ~afterChal
    /\ chal => pc \in {"boot_failed", "on_challenge", "exited"}
    /\ (chal /\ pc = "exited") =>
          /\ exitCode = 1
          /\ hbs # << >> /\ Last(hbs).status = "challenge_required"

\* C9: a failure that is neither LoginRequired nor a manual-verification
\* signal is handled by the last except clause: the process does not exit, a
\* heartbeat with status error and the failure as detail is sent, and the
\* scheduler sleeps the jittered active interval, at least 120 seconds,
\* before the next iteration.
C9_OtherFailuresSurvive ==
    /\ [](pc \in HandlerPcs =>
            (pc = "on_error" <=>
               loc.exc \notin {"LoginRequired", "ChallengeRequired",
                               "SelectContactPointRecoveryForm"}))
    /\ [][pc = "on_error" =>
            /\ pc' = "sleep" /\ exitCode' = -1
            /\ hbs' = Append(hbs, Heartbeat("error", 0, 0, loc.exc))
            /\ loc'.sleep_for >= Sec(120)
            /\ \E j \in 70..130 :
                 loc'.sleep_for = Max(cfg.poll_interval_active_sec * j, Sec(120))
         ]_vars
    /\ [][exitCode' # exitCode /\ exitCode' # -1 =>
            pc \in {"boot_failed", "on_login_required", "on_challenge"}]_vars

\* an unexpected failure in the wind-down hours: the error heartbeat is out
\* and the process is about to sleep
C9_Witness ==
    /\ pc = "sleep" /\ exitCode = -1
    /\ hbs # << >> /\ Last(hbs).status = "error"
    /\ loc.exc = "ClientError"
    /\ HourOf(now) >= cfg.winddown_start_hour

\* C10: a failure while handling one pending reply never leaves the reply
\* loop: whenever an exception reaches the except clauses of the scheduler,
\* no pending reply is left unprocessed.
C10_ReplyFailureSkipped ==
    pc \in HandlerPcs => loc.pending = << >>

\* the fetch of the pending replies is the next step of the poll cycle
AtFetch == pc = "thread" /\ loc.threads = << >>

\* C11: when the body of the pending-replies response has no messages
\* field, is not JSON, is not an object, or carries a messages value that is
\* null or not a list of reply objects, the reply loop starts on an empty
\* list: no reply is sent, no failure leaves the poll cycle, and the cycle
\* reaches its ok heartbeat with messages_sent = 0.
C11_MalformedIsEmpty ==
    /\ [][(AtFetch /\ body # "object") =>
            pc' = "reply" /\ loc'.pending = << >>]_vars
    /\ [](body # "object" =>
            /\ pc = "reply" => loc.pending = << >> /\ loc.messages_sent = 0
            /\ pc \in HandlerPcs => loc.exc \in RemoteOutcome)

\* the shapes the try block of fetch_pending_replies does turn into an empty
\* list: no messages field, a body that is not JSON or not an object
C11_CaughtShapes ==
    [][(AtFetch /\ body \in {"no_messages", "not_json", "not_object"}) =>
          pc' = "reply" /\ loc'.pending = << >>]_vars

\* C12: a pending reply that was sent through the remote client is not sent
\* a second time, in the same cycle or a later one, also when its
\* confirmation could not be posted and the backend still lists it.
C12_SentOnce ==
    \A id \in ReplyIds \ {Missing} : sends[id] <= 1

\* a backend call of this step has failed in all its attempts
Exhausted == budget'.fail < budget.fail

\* C13: a backend call that fails in all three attempts raises nothing to
\* the scheduler and ends nothing: the step goes where it goes when the call
\* succeeds.  A forward is followed by the watermark update, a failed fetch
\* by the reply loop over an empty list, a failed confirmation by the next
\* pending reply with the reply counted as sent, a failed ok heartbeat by the
\* jittered sleep of at least 120 seconds; the watermark map is on disk
\* before the ok heartbeat is attempted.  The process exits only where a
\* login has failed.
C13_ExhaustionTolerated ==
    /\ [][Exhausted =>
            /\ pc' \notin HandlerPcs
            /\ (exitCode' # exitCode) =>
                  pc \in {"boot_failed", "on_login_required", "on_challenge"}
            /\ (pc = "forward") =>
                  /\ pc' = "thread"
                  /\ last_seen'[loc.thread_id] = Str(loc.messages[1])
            /\ (pc = "thread") => pc' = "reply" /\ loc'.pending = << >>
            /\ (pc = "reply") =>
                  /\ pc' = "reply"
                  /\ loc'.pending = Tail(loc.pending)
                  /\ loc'.messages_sent = loc.messages_sent + 1
            /\ (pc = "heartbeat") =>
                  /\ pc' = "sleep"
                  /\ hbs' = Append(hbs, Heartbeat("ok", loc.messages_found,
                                                  loc.messages_sent, None))
                  /\ loc'.sleep_for >= Sec(120)
                  /\ \E j \in 70..130 :
                       loc'.sleep_for = Max(loc.base_interval * j, Sec(120))
            /\ (pc \in {"loop", "on_error"}) => pc' = "sleep"
         ]_vars
    /\ [](pc = "heartbeat" => disk.exists /\ disk.data = last_seen)

\* a forward failed in all its attempts and the cycle still ended with the
\* ok heartbeat and the jittered sleep
C13_Witness ==
    /\ pc = "sleep" /\ polled /\ exitCode = -1
    /\ hbs # << >> /\ Last(hbs).status = "ok"
    /\ \E i \in 1..Len(cycFwd) : ~cycFwd[i].delivered
    /\ disk.exists /\ disk.data = last_seen
    /\ loc.sleep_for >= Sec(120)

\* the confirmation of a sent reply failed in all its attempts and the cycle
\* still ended with the ok heartbeat
C13_WitnessConfirm ==
    /\ pc = "sleep" /\ polled
    /\ hbs # << >> /\ Last(hbs).status = "ok" /\ Last(hbs).messages_sent = 1
    /\ queue # << >> /\ sends[Head(queue).id] = 1

\* no poll cycle is running
BetweenCycles == pc \in {"loop", "sleep", "exited"}

\* the message a watermark denotes (0 for no watermark)
Denoted(w) == IF w = None THEN 0 ELSE w[2]

\* C14: the watermark of a thread in the persisted map only moves to a
\* newer message, and whenever no poll cycle is running, a watermark that is
\* set in the persisted map denotes the newest message of the thread the
\* agent has handed to forward_message.
C14_PersistedWatermarkNewest ==
    /\ [][\A t \in Threads :
            disk'.data[t] # disk.data[t] =>
                Denoted(disk'.data[t]) > Denoted(disk.data[t])]_vars
    /\ [](BetweenCycles =>
            \A t \in Threads :
                disk.data[t] # None => Denoted(disk.data[t]) = newest[t])

\* the part of C14 the code keeps: the persisted watermark of a thread is
\* never replaced by an older one, and never runs ahead of what was forwarded
C14_PersistedOnlyAdvances ==
    /\ [][\A t \in Threads :
            disk'.data[t] # disk.data[t] =>
                Denoted(disk'.data[t]) > Denoted(disk.data[t])]_vars
    /\ [](\A t \in Threads : Denoted(disk.data[t]) <= newest[t])

\* C15: for a base interval of I seconds and a jitter factor j between 0.7
\* and 1.3, calculate_sleep returns I*j when that is at least 120 seconds
\* and 120 seconds otherwise: a value between max(0.7*I, 120) and
\* max(1.3*I, 120), never below 120, and exactly 120 for every I <= 92.
C15_SleepBounds ==
    rq.state = "returned" =>
        LET I == rq.base_interval
            j == rq.jitter
            floor == 120 * 100
        IN  /\ j \in 70..130
            /\ rq.result = (IF I * j >= floor THEN I * j ELSE floor)
            /\ rq.result >= (IF I * 70 >= floor THEN I * 70 ELSE floor)
            /\ rq.result <= (IF I * 130 >= floor THEN I * 130 ELSE floor)
            /\ rq.result >= floor
            /\ (I <= 92) => rq.result = floor

\* calculate_sleep(60) with the largest jitter still returns the floor
C15_Witness ==
    /\ rq.state = "returned"
    /\ rq.base_interval = 60 /\ rq.jitter = 130
    /\ rq.result = 12000

\* above the floor the jitter decides: calculate_sleep(300) with factor 0.7
C15_WitnessAboveFloor ==
    /\ rq.state = "returned"
    /\ rq.base_interval = 300 /\ rq.jitter = 70
    /\ rq.result = 21000

\* C16: when a remote-client call of a poll cycle (thread listing, message
\* listing, sending a pending reply) has raised LoginRequired, the cycle is
\* over: the scheduler is in its LoginRequired clause, about to build a
\* fresh client and log in, or has exited because that login failed; no
\* other remote-client call comes in between.
C16_LoginRequiredRecovers ==
    (polled /\ lastOut = "LoginRequired") => pc \in {"on_login_required", "exited"}

\* the part of C16 the code keeps: LoginRequired out of the thread listing
\* or a message listing leaves the cycle for the LoginRequired clause
C16_ListingsRecover ==
    [][(pc \in {"threads", "thread"} /\ lastOut' = "LoginRequired") =>
          pc' = "on_login_required"]_vars

\* this step makes a remote-client call
RemoteCallStep == calls' = calls + 1

\* the lock file exists and was modified less than five minutes ago
LockFresh == lock.exists /\ now - lock.mtime < Sec(5 * 60)

\* C17: no remote-client call (login, thread listing, message listing,
\* reply sending) is made at a moment at which the coordination lock is
\* fresh, the startup login and the recovery login included.
C17_NoCallWhileLockFresh ==
    [][RemoteCallStep => ~LockFresh]_vars

\* C17 for the calls of a poll cycle alone: the lock is looked at once, before
\* the cycle, and the tool may refresh it while the cycle runs
C17_NoCallInCycleWhileLockFresh ==
    [][(RemoteCallStep /\ pc \in PollPcs) => ~LockFresh]_vars

\* the poll cycle of the current iteration has returned without raising
CycleReturned == polled /\ loc.exc = ""

\* C18: the watermark file changes only by save_last_seen, which is called
\* when poll_cycle has returned, writes the in-memory map, and comes before
\* the ok heartbeat, which carries the counts the cycle returned.  An
\* iteration has called it once when its poll cycle returned, and not at all
\* when the iteration was skipped (outside the active hours, lock fresh) or
\* its poll cycle was left by an exception.
C18_SavedOncePerReturnedCycle ==
    /\ [][disk' # disk => saves' = saves + 1]_vars
    /\ [][saves' = saves + 1 =>
            /\ pc = "reply" /\ loc.pending = << >> /\ CycleReturned
            /\ saves = 0
            /\ disk' = [exists |-> TRUE, data |-> last_seen]
            /\ hbs' = << >>
            /\ pc' = "heartbeat"]_vars
    /\ [][pc = "heartbeat" =>
            hbs' = << Heartbeat("ok", loc.messages_found, loc.messages_sent, None) >>]_vars
    /\ [](pc \in {"heartbeat", "sleep"} =>
            saves = (IF CycleReturned THEN 1 ELSE 0))
    /\ [](pc \in HandlerPcs \/ loc.exc # "" => saves = 0)

\* a cycle that found no thread has returned and the map was written once;
\* the ok heartbeat is out
C18_Witness ==
    /\ pc = "sleep" /\ CycleReturned /\ saves = 1
    /\ hbs # << >> /\ Last(hbs).status = "ok"
    /\ disk.exists /\ disk.data = EmptyMap

\* an aborted cycle after a thread was processed: nothing written
C18_WitnessAborted ==
    /\ pc = "sleep" /\ polled /\ loc.exc # "" /\ saves = 0
    /\ \E t \in Threads : last_seen[t] # disk.data[t]

\* C19: no message the account itself sent (such as a reply the agent
\* delivered through the remote client) is handed to forward_message.
C19_OnlyInboundForwarded ==
    \A t \in Threads :
        \A i \in 1..Len(runFwd[t]) : runFwd[t][i] \notin own[t]

\* a poll cycle has just been entered
CycleStarts == pc = "threads" /\ calls = 0

\* C20 as stated: a poll cycle starts only after the scheduler has slept at
\* least 120 seconds since the previous poll cycle of the run ended, however
\* that cycle ended.
C20_SleepBetweenCycles ==
    (CycleStarts /\ gap.how # "none") => gap.slept >= Sec(120)

\* C20 amended: a poll cycle that follows one that returned, or one that
\* was left by an unexpected failure, starts only after the scheduler has
\* slept at least 120 seconds; the recovery from LoginRequired takes no time
\* off the clock and hands over to the next iteration directly.
C20_SleepAfterReturnOrFailure ==
    /\ [](CycleStarts /\ gap.how \in {"returned", "raised"} =>
            gap.slept >= Sec(120))
    /\ [][(pc = "on_login_required" /\ pc' # "exited") =>
            pc' = "loop" /\ now' = now]_vars

\* a poll cycle entered after the error sleep that followed an unexpected
\* failure of the previous one
C20_Witness ==
    /\ CycleStarts /\ gap.how = "raised" /\ gap.slept >= Sec(120)

\* a poll cycle entered right after a recovery, without any sleep
C20_WitnessRecovered ==
    /\ CycleStarts /\ gap.how = "recovered" /\ gap.slept = 0

\* the process has ended through one of its own exits after a poll cycle
FatalExit == pc = "exited" /\ exitCode = 1 /\ polled

\* C21: when the process has ended through a fatal exit out of a poll
\* cycle, the watermark file covers every message handed to forward_message
\* during the run; and no message is handed to forward_message that was
\* handed to it before, in this run or in one before a restart.
C21_ExitKeepsWatermark ==
    /\ [](FatalExit =>
            \A t \in Threads :
                \A i \in 1..Len(runFwd[t]) :
                    Denoted(disk.data[t]) >= runFwd[t][i])
    /\ [][pc = "forward" =>
            \A i \in 1..Len(loc.new_msgs) :
                loc.new_msgs[i] > newest[loc.thread_id]]_vars

\* the second half of C21 alone: a message forwarded in an earlier run is
\* handed to forward_message again after the restart
C21_NoForwardTwice ==
    [][pc = "forward" =>
          \A i \in 1..Len(loc.new_msgs) :
              loc.new_msgs[i] > newest[loc.thread_id]]_vars


\* the process has ended: a fatal exit of the startup or of the loop
Exited == pc = "exited"

\* C22: provided the process takes no fatal exit and the coordination lock
\* does not stay fresh forever (again and again there is a moment at which it
\* is not fresh), a poll cycle is started infinitely often; every sleep and
\* every call returning is the fairness of the specification.
C22_PollsForever ==
    ([]<>~LockFresh /\ []~Exited) => []<>CycleStarts

\* C22, amended: provided the process takes no fatal exit and the lock is,
\* from some moment on, never fresh again, a poll cycle is started infinitely
\* often.
C22_PollsOnceLockRests ==
    (<>[]~LockFresh /\ []~Exited) => []<>CycleStarts

\* a poll cycle starts although the cooperating tool has written its lock:
\* the lock has reached the age of five minutes during the lock-skip sleeps
C22_Witness ==
    /\ CycleStarts
    /\ lock.exists /\ now - lock.mtime = FreshWindow
    /\ now > Clock(9, 0, 0)

\* a poll cycle starts right after the sleep that ends outside the window
C22_WitnessMorning ==
    CycleStarts /\ now = Clock(9, 0, 0) /\ hbs = << >> /\ last_seen["t1"] # None

====
